---- MODULE Spec2Model ----
(***************************************************************************)
(* ICM-42688-P register-level driver: the facade Icm42688p (src/lib.rs),   *)
(* the register map (src/register.rs), the configuration enums and their   *)
(* decoders (src/config.rs) and the two bus interfaces (src/interface.rs). *)
(*                                                                         *)
(* Bytes are naturals 0..255.  A bus transaction is a record appended to   *)
(* `trace`; the device is a register file `regs` indexed by address, with  *)
(* the bank selected by the last write to RegBankSel in `bank`.            *)
(***************************************************************************)
EXTENDS Integers, Sequences, FiniteSets, TLC

VARIABLES
    debug_assertions,   \* the build keeps debug_assert! (cfg(debug_assertions))
    phase,              \* which component is exercised and how far it got
    regs,               \* device register file of the selected bank: address -> byte
    bank,               \* bank selected on the device (value of RegBankSel)
    op,                 \* the last call: its name and arguments
    pre,                \* regs as they were when the last call started
    trace,              \* bus transactions issued by the last call, in order
    result              \* what the last call returned (or that it panicked)

vars == <<debug_assertions, phase, regs, bank, op, pre, trace, result>>

---------------------------------------------------------------------------
(* u8 arithmetic *)

Pow2(n) == 2 ^ n

Bit(b, i) == (b \div Pow2(i)) % 2

\* a & b on u8
And8(a, b) ==
    Bit(a, 0) * Bit(b, 0) + Bit(a, 1) * Bit(b, 1) * 2
    + Bit(a, 2) * Bit(b, 2) * 4 + Bit(a, 3) * Bit(b, 3) * 8
    + Bit(a, 4) * Bit(b, 4) * 16 + Bit(a, 5) * Bit(b, 5) * 32
    + Bit(a, 6) * Bit(b, 6) * 64 + Bit(a, 7) * Bit(b, 7) * 128

\* a | b on u8: a + b counts the bits set in both twice
Or8(a, b) == a + b - And8(a, b)

\* !a on u8
Not8(a) == 255 - a

\* a << n on u8 (n < 8): the bits shifted out of the byte are dropped
Shl8(a, n) == (a * Pow2(n)) % 256

\* a >> n on u8
Shr8(a, n) == a \div Pow2(n)

\* u16::from_be_bytes([hi, lo])
from_be_bytes(hi, lo) == hi * 256 + lo

---------------------------------------------------------------------------
(* src/register.rs: the register map *)

\* enum Bank0 with its discriminants (register addresses)
Bank0 ==
    [ DeviceConfig |-> 17, IntConfig |-> 20, FifoConfig |-> 22,
      TempData1 |-> 29, TempData0 |-> 30,
      AccelDataX1 |-> 31, AccelDataX0 |-> 32,
      AccelDataY1 |-> 33, AccelDataY0 |-> 34,
      AccelDataZ1 |-> 35, AccelDataZ0 |-> 36,
      GyroDataX1 |-> 37, GyroDataX0 |-> 38,
      GyroDataY1 |-> 39, GyroDataY0 |-> 40,
      GyroDataZ1 |-> 41, GyroDataZ0 |-> 42,
      IntStatus |-> 45, FifoCountH |-> 46, FifoCountL |-> 47, FifoData |-> 48,
      SignalPathReset |-> 75, IntfConfig0 |-> 76, IntfConfig1 |-> 77,
      PwrMgmt0 |-> 78, GyroConfig0 |-> 79, AccelConfig0 |-> 80,
      GyroConfig1 |-> 81, GyroAccelConfig0 |-> 82, AccelConfig1 |-> 83,
      TmstConfig |-> 84,
      FifoConfig1 |-> 95, FifoConfig2 |-> 96, FifoConfig3 |-> 97,
      IntConfig0 |-> 99, IntConfig1 |-> 100, IntSource0 |-> 101,
      SelfTestConfig |-> 112, WhoAmI |-> 117, RegBankSel |-> 118 ]

Bank0Names == DOMAIN Bank0

\* Register::address for Bank0
address(reg) == Bank0[reg]

\* Register::readable for Bank0
readable(reg) ==
    reg \in { "DeviceConfig", "FifoConfig", "TempData1", "TempData0",
              "AccelDataX1", "AccelDataX0", "AccelDataY1", "AccelDataY0",
              "AccelDataZ1", "AccelDataZ0",
              "GyroDataX1", "GyroDataX0", "GyroDataY1", "GyroDataY0",
              "GyroDataZ1", "GyroDataZ0", "FifoCountH", "FifoCountL" }

\* Register::writable for Bank0
writable(reg) ==
    reg \in { "DeviceConfig", "FifoConfig", "PwrMgmt0", "GyroConfig0",
              "AccelConfig0", "GyroConfig1", "GyroAccelConfig0", "AccelConfig1" }

\* the loop of BitRange::mask: `for i in offset..offset + length { mask &= 1 << i }`
RECURSIVE mask_loop(_, _, _)
mask_loop(m, i, end) ==
    IF i >= end THEN m ELSE mask_loop(And8(m, Shl8(1, i)), i + 1, end)

\* a mask whose loop starts at bit 0 instead of `offset` and sets the bits:
\* it covers the field and every bit below it
mask_from_bit0(range) == Pow2(range.offset + range.length) - 1

\* BitRange::mask: `let mut mask: u8 = 0;`, the loop, then `mask`
mask(range) == mask_loop(0, range.offset, range.offset + range.length)

\* ACCEL_CONFIG0::ODR, ACCEL_CONFIG0::FS_SEL
ACCEL_CONFIG0 == [ ODR    |-> [offset |-> 0, length |-> 4],
                   FS_SEL |-> [offset |-> 5, length |-> 3] ]

\* GYRO_CONFIG0::ODR, GYRO_CONFIG0::FS_SEL
GYRO_CONFIG0 == [ ODR    |-> [offset |-> 0, length |-> 4],
                  FS_SEL |-> [offset |-> 5, length |-> 3] ]

\* SIGNAL_PATH_RESET: each constant is the bit's mask, `1 << n`
SIGNAL_PATH_RESET == [ DMP_INIT_EN      |-> Shl8(1, 6),
                       DMP_MEM_RESET_EN |-> Shl8(1, 5),
                       ABORT_AND_RESET  |-> Shl8(1, 3),
                       TMST_STROBE      |-> Shl8(1, 2),
                       FIFO_FLUSH       |-> Shl8(1, 1) ]

---------------------------------------------------------------------------
(* src/config.rs: configuration enums, `v as u8` and TryFrom<u8> *)

Ok(v) == [tag |-> "Ok", val |-> v]

Err(e) == [tag |-> "Err", err |-> e]

\* enum AccelOdr: discriminants
AccelOdr ==
    [ Hz32k |-> 1, Hz16k |-> 2, Hz8k |-> 3, Hz4k |-> 4, Hz2k |-> 5, Hz1k |-> 6,
      Hz200 |-> 7, Hz100 |-> 8, Hz50 |-> 9, Hz25 |-> 10, Hz12_5 |-> 11,
      Hz6_25 |-> 12, Hz3_125 |-> 13, Hz1_5625 |-> 14, Hz500 |-> 15 ]

\* impl TryFrom<u8> for AccelOdr
AccelOdr_try_from(value) ==
    CASE value = 1 -> Ok("Hz32k")
      [] value = 2 -> Ok("Hz16k")
      [] value = 3 -> Ok("Hz8k")
      [] value = 4 -> Ok("Hz4k")
      [] value = 5 -> Ok("Hz2k")
      [] value = 6 -> Ok("Hz1k")
      [] value = 7 -> Ok("Hz200")
      [] value = 8 -> Ok("Hz100")
      [] value = 9 -> Ok("Hz50")
      [] value = 10 -> Ok("Hz25")
      [] value = 11 -> Ok("Hz12_5")
      [] value = 12 -> Ok("Hz6_25")
      [] value = 13 -> Ok("Hz3_125")
      [] value = 14 -> Ok("Hz1_5625")
      [] value = 15 -> Ok("Hz500")
      [] OTHER -> Err("DataCorrupted")

\* enum AccelRange: discriminants
AccelRange == [ G16 |-> 0, G8 |-> 1, G4 |-> 2, G2 |-> 3 ]

\* impl TryFrom<u8> for AccelRange
AccelRange_try_from(value) ==
    CASE value = 0 -> Ok("G16")
      [] value = 1 -> Ok("G8")
      [] value = 2 -> Ok("G4")
      [] value = 3 -> Ok("G2")
      [] OTHER -> Err("DataCorrupted")

\* AccelRange::sensitivity_scale_factor, LSB/g, in tenths (2048.0 -> 20480)
AccelRange_sensitivity_scale_factor(r) ==
    CASE r = "G16" -> 20480
      [] r = "G8" -> 40960
      [] r = "G4" -> 81920
      [] r = "G2" -> 163840

\* enum GyroOdr: discriminants
GyroOdr ==
    [ Hz32k |-> 1, Hz16k |-> 2, Hz8k |-> 3, Hz4k |-> 4, Hz2k |-> 5, Hz1k |-> 6,
      Hz200 |-> 7, Hz100 |-> 8, Hz50 |-> 9, Hz25 |-> 10, Hz12_5 |-> 11,
      Hz500 |-> 15 ]

\* GyroOdr decoded with the accelerometer's table, which also defines 12, 13, 14
GyroOdr_try_from_accel_table(value) ==
    IF value \in 1..15 THEN Ok(CHOOSE v \in DOMAIN AccelOdr : AccelOdr[v] = value)
    ELSE Err("DataCorrupted")

\* impl TryFrom<u8> for GyroOdr
GyroOdr_try_from(value) ==
    CASE value = 1 -> Ok("Hz32k")
      [] value = 2 -> Ok("Hz16k")
      [] value = 3 -> Ok("Hz8k")
      [] value = 4 -> Ok("Hz4k")
      [] value = 5 -> Ok("Hz2k")
      [] value = 6 -> Ok("Hz1k")
      [] value = 7 -> Ok("Hz200")
      [] value = 8 -> Ok("Hz100")
      [] value = 9 -> Ok("Hz50")
      [] value = 10 -> Ok("Hz25")
      [] value = 11 -> Ok("Hz12_5")
      [] value = 15 -> Ok("Hz500")
      [] OTHER -> Err("DataCorrupted")

\* enum GyroRange: discriminants
GyroRange ==
    [ Dps2000 |-> 0, Dps1000 |-> 1, Dps500 |-> 2, Dps250 |-> 3,
      Dps125 |-> 4, Dps62_5 |-> 5, Dps31_25 |-> 6, Dps15_625 |-> 7 ]

\* impl TryFrom<u8> for GyroRange
GyroRange_try_from(value) ==
    CASE value = 0 -> Ok("Dps2000")
      [] value = 1 -> Ok("Dps1000")
      [] value = 2 -> Ok("Dps500")
      [] value = 3 -> Ok("Dps250")
      [] value = 4 -> Ok("Dps125")
      [] value = 5 -> Ok("Dps62_5")
      [] value = 6 -> Ok("Dps31_25")
      [] value = 7 -> Ok("Dps15_625")
      [] OTHER -> Err("DataCorrupted")

\* GyroRange::sensitivity_scale_factor, LSB/(deg/s), in tenths (16.4 -> 164)
GyroRange_sensitivity_scale_factor(r) ==
    CASE r = "Dps2000" -> 164
      [] r = "Dps1000" -> 328
      [] r = "Dps500" -> 655
      [] r = "Dps250" -> 1310
      [] r = "Dps125" -> 2620
      [] r = "Dps62_5" -> 5243
      [] r = "Dps31_25" -> 10486
      [] r = "Dps15_625" -> 20972

\* enum GyroMode: discriminants
GyroMode == [ Off |-> 0, Standby |-> 1, LowNoise |-> 3 ]

\* impl TryFrom<u8> for GyroMode
GyroMode_try_from(value) ==
    CASE value = 0 -> Ok("Off")
      [] value = 1 -> Ok("Standby")
      [] value = 3 -> Ok("LowNoise")
      [] OTHER -> Err("DataCorrupted")

\* enum AccelMode: discriminants
AccelMode == [ Off |-> 0, LowPower |-> 2, LowNoise |-> 3 ]

\* impl TryFrom<u8> for AccelMode: the first arm is `0b00 | 0b01`
AccelMode_try_from(value) ==
    CASE value = 0 \/ value = 1 -> Ok("Off")
      [] value = 2 -> Ok("LowPower")
      [] value = 3 -> Ok("LowNoise")
      [] OTHER -> Err("DataCorrupted")

\* enum FifoMode: discriminants
FifoMode == [ Bypass |-> 0, Stream |-> 1, StopOnFull |-> 2 ]

\* impl TryFrom<u8> for FifoMode: the third arm is `0b10 | 0b11`
FifoMode_try_from(value) ==
    CASE value = 0 -> Ok("Bypass")
      [] value = 1 -> Ok("Stream")
      [] value = 2 \/ value = 3 -> Ok("StopOnFull")
      [] OTHER -> Err("DataCorrupted")

\* enum PowerMode: discriminants
PowerMode ==
    [ Sleep |-> 0, Standby |-> 4, AccelLowPower |-> 2, AccelLowNoise |-> 3,
      GyroLowNoise |-> 12, SixAxisLowNoise |-> 15 ]

\* PowerMode decoded with the arms of Standby (0b0100) and AccelLowPower
\* (0b0010) exchanged
PowerMode_try_from_swapped(value) ==
    CASE value = 0 -> Ok("Sleep")
      [] value = 2 -> Ok("Standby")
      [] value = 4 -> Ok("AccelLowPower")
      [] value = 3 -> Ok("AccelLowNoise")
      [] value = 12 -> Ok("GyroLowNoise")
      [] value = 15 -> Ok("SixAxisLowNoise")
      [] OTHER -> Err("DataCorrupted")

\* impl TryFrom<u8> for PowerMode
PowerMode_try_from(value) ==
    CASE value = 0 -> Ok("Sleep")
      [] value = 4 -> Ok("Standby")
      [] value = 2 -> Ok("AccelLowPower")
      [] value = 3 -> Ok("AccelLowNoise")
      [] value = 12 -> Ok("GyroLowNoise")
      [] value = 15 -> Ok("SixAxisLowNoise")
      [] OTHER -> Err("DataCorrupted")

\* the configuration enums
Enums == { "AccelOdr", "GyroOdr", "AccelRange", "GyroRange",
           "GyroMode", "AccelMode", "FifoMode", "PowerMode" }

\* the discriminant table of an enum
Discriminants(e) ==
    CASE e = "AccelOdr" -> AccelOdr
      [] e = "GyroOdr" -> GyroOdr
      [] e = "AccelRange" -> AccelRange
      [] e = "GyroRange" -> GyroRange
      [] e = "GyroMode" -> GyroMode
      [] e = "AccelMode" -> AccelMode
      [] e = "FifoMode" -> FifoMode
      [] e = "PowerMode" -> PowerMode

\* `v as u8`
as_u8(e, v) == Discriminants(e)[v]

\* <E as TryFrom<u8>>::try_from(value)
try_from(e, value) ==
    CASE e = "AccelOdr" -> AccelOdr_try_from(value)
      [] e = "GyroOdr" -> GyroOdr_try_from(value)
      [] e = "AccelRange" -> AccelRange_try_from(value)
      [] e = "GyroRange" -> GyroRange_try_from(value)
      [] e = "GyroMode" -> GyroMode_try_from(value)
      [] e = "AccelMode" -> AccelMode_try_from(value)
      [] e = "FifoMode" -> FifoMode_try_from(value)
      [] e = "PowerMode" -> PowerMode_try_from(value)

---------------------------------------------------------------------------
(* The SPI bus and the device behind it *)

\* ICM42688P_DEVICE_ID
ICM42688P_DEVICE_ID == 71

\* SPI_WRITE_OPERATION
SPI_WRITE_OPERATION == 0

\* SPI_READ_OPERATION
SPI_READ_OPERATION == 128

\* The device's answer to a completed two-byte SPI frame: with bit 7 of the
\* first byte set it returns the addressed register in the second byte, with
\* bit 7 clear it stores the second byte in the addressed register; a store to
\* RegBankSel selects the bank.
DeviceFrame(c, buf) ==
    IF buf[1] >= 128
    THEN [c EXCEPT !.rx = <<0, c.regs[buf[1] - 128]>>]
    ELSE [c EXCEPT !.rx = <<0, 0>>,
                   !.regs = [c.regs EXCEPT ![buf[1]] = buf[2]],
                   !.bank = IF buf[1] = Bank0.RegBankSel THEN buf[2] % 8 ELSE c.bank]

\* `let v = e; F(v)`: e is evaluated once and F sees its value
Bind(e, F(_)) == CHOOSE out \in { F(v) : v \in {e} } : TRUE

\* `e?; F(v)`: the first failure (or panic) is what the call returns
Try(e, F(_)) == Bind(e, LAMBDA r : IF r.status # "ok" THEN r ELSE F(r))

\* SpiBus::transfer_in_place(&mut buf): the fail-th transaction of a call is the
\* one the bus reports as failed (0: none fails); a failed transfer reaches no register
transfer_in_place(c, buf, fail) ==
    IF Len(c.trace) + 1 = fail
    THEN [c EXCEPT !.trace = Append(@, [call |-> "transfer_in_place", tx |-> buf,
                                        rx |-> <<>>, ok |-> FALSE]),
                   !.status = "err"]
    ELSE Bind(DeviceFrame(c, buf), LAMBDA d :
            [d EXCEPT !.trace = Append(@, [call |-> "transfer_in_place", tx |-> buf,
                                           rx |-> d.rx, ok |-> TRUE])])

\* the context a call starts in: the device as it is, nothing on the bus yet
Ctx0 == [regs |-> regs, bank |-> bank, trace |-> <<>>, rx |-> <<>>,
         status |-> "ok", err |-> "none", val |-> 0]

---------------------------------------------------------------------------
(* src/lib.rs: Icm42688p *)

\* Icm42688p::read_register
read_register(c, reg, fail) ==
    IF debug_assertions /\ ~readable(reg)
    THEN [c EXCEPT !.status = "panic", !.err = "debug_assert"]
    ELSE Bind(transfer_in_place(c, <<Or8(address(reg), SPI_READ_OPERATION), 0>>, fail),
              LAMBDA t : IF t.status = "err"
                         THEN [t EXCEPT !.err = "Spi"]
                         ELSE [t EXCEPT !.val = t.rx[2]])

\* Icm42688p::write_register
write_register(c, reg, data, fail) ==
    IF debug_assertions /\ ~writable(reg)
    THEN [c EXCEPT !.status = "panic", !.err = "debug_assert"]
    ELSE Bind(transfer_in_place(c, <<Or8(address(reg), SPI_WRITE_OPERATION), data>>, fail),
              LAMBDA t : IF t.status = "err"
                         THEN [t EXCEPT !.err = "Spi"]
                         ELSE [t EXCEPT !.val = 0])

\* Icm42688p::set_register_bits
set_register_bits(c, reg, range, data, fail) ==
    Try(read_register(c, reg, fail), LAMBDA r :
        Bind(Or8(And8(r.val, Not8(mask(range))), Shl8(data, range.offset)),
             LAMBDA buf : write_register(r, reg, buf, fail)))

\* Icm42688p::device_id
device_id(c, fail) == read_register(c, "WhoAmI", fail)

\* `value.try_into()` as the tail of a getter: the decoded variant or its error
try_into(c, e, value) ==
    Bind(try_from(e, value), LAMBDA d :
        IF d.tag = "Ok" THEN [c EXCEPT !.val = d.val]
        ELSE [c EXCEPT !.status = "err", !.err = d.err])

\* Icm42688p::set_accel_range
set_accel_range(c, range, fail) ==
    set_register_bits(c, "AccelConfig0", ACCEL_CONFIG0.FS_SEL,
                      as_u8("AccelRange", range), fail)

\* Icm42688p::accel_range
accel_range(c, fail) ==
    Try(read_register(c, "AccelConfig0", fail), LAMBDA r :
        try_into(r, "AccelRange", Shr8(r.val, 5)))

\* Icm42688p::accel_odr
accel_odr(c, fail) ==
    Try(read_register(c, "AccelConfig0", fail), LAMBDA r :
        try_into(r, "AccelOdr", And8(r.val, 15)))

\* Icm42688p::set_gyro_range
set_gyro_range(c, range, fail) ==
    set_register_bits(c, "GyroConfig0", GYRO_CONFIG0.FS_SEL,
                      as_u8("GyroRange", range), fail)

\* Icm42688p::gyro_range
gyro_range(c, fail) ==
    Try(read_register(c, "GyroConfig0", fail), LAMBDA r :
        try_into(r, "GyroRange", Shr8(r.val, 5)))

\* Icm42688p::gyro_odr: reads Bank0::AccelConfig0
gyro_odr(c, fail) ==
    Try(read_register(c, "AccelConfig0", fail), LAMBDA r :
        try_into(r, "GyroOdr", And8(r.val, 15)))

\* set_power_mode written as a field write of bits 3..0 through
\* set_register_bits, whose mask clears nothing before the OR
set_power_mode_via_bits(c, mode, fail) ==
    set_register_bits(c, "PwrMgmt0", [offset |-> 0, length |-> 4],
                      as_u8("PowerMode", mode), fail)

\* Icm42688p::set_power_mode
set_power_mode(c, mode, fail) ==
    Try(read_register(c, "PwrMgmt0", fail), LAMBDA r :
        Bind(Or8(And8(r.val, 240), as_u8("PowerMode", mode)),
             LAMBDA accel_gyro_mode : write_register(r, "PwrMgmt0", accel_gyro_mode, fail)))

\* Icm42688p::power_mode
power_mode(c, fail) ==
    Try(read_register(c, "PwrMgmt0", fail), LAMBDA r :
        try_into(r, "PowerMode", And8(r.val, 15)))

\* Icm42688p::reset_fifo: the BitRange's offset is the constant FIFO_FLUSH
\* itself, and the Result of set_register_bits is unwrapped
reset_fifo(c, fail) ==
    Bind(set_register_bits(c, "SignalPathReset",
                           [offset |-> SIGNAL_PATH_RESET.FIFO_FLUSH, length |-> 1],
                           1, fail),
         LAMBDA r : IF r.status = "err"
                    THEN [r EXCEPT !.status = "panic", !.err = "unwrap"]
                    ELSE r)

\* u16::from_be_bytes([self.read_register(first)?, self.read_register(second)?])
read_be_pair(c, first, second, fail) ==
    Try(read_register(c, first, fail), LAMBDA a :
        Try(read_register(a, second, fail), LAMBDA b :
            [b EXCEPT !.val = from_be_bytes(a.val, b.val)]))

\* three pairs read in order, the first failure returned: Ok((x, y, z))
read_be_triple(c, p1, p2, p3, fail) ==
    Try(read_be_pair(c, p1[1], p1[2], fail), LAMBDA x :
        Try(read_be_pair(x, p2[1], p2[2], fail), LAMBDA y :
            Try(read_be_pair(y, p3[1], p3[2], fail), LAMBDA z :
                [z EXCEPT !.val = <<x.val, y.val, z.val>>])))

\* Icm42688p::raw_acceleration
raw_acceleration(c, fail) ==
    read_be_triple(c, <<"AccelDataX0", "AccelDataX1">>,
                      <<"AccelDataY0", "AccelDataY1">>,
                      <<"AccelDataZ0", "AccelDataZ1">>, fail)

\* Icm42688p::raw_angular_velocity
raw_angular_velocity(c, fail) ==
    read_be_triple(c, <<"GyroDataX0", "GyroDataX1">>,
                      <<"GyroDataY0", "GyroDataY1">>,
                      <<"GyroDataZ0", "GyroDataZ1">>, fail)

\* Icm42688p::raw_temperature
raw_temperature(c, fail) == read_be_pair(c, "TempData0", "TempData1", fail)

\* Icm42688p::fifo_count
fifo_count(c, fail) == read_be_pair(c, "FifoCountL", "FifoCountH", fail)

\* `x as f32 / factor` for a u16 x: the quotient as the exact fraction
\* num/den (factor is carried in tenths, so num is in tenths too)
f32_div(x, factor10) == [num |-> x * 10, den |-> factor10]

\* Icm42688p::acceleration
acceleration(c, fail) ==
    Try(raw_acceleration(c, fail), LAMBDA raw :
        Try(accel_range(raw, fail), LAMBDA r :
            Bind(AccelRange_sensitivity_scale_factor(r.val), LAMBDA factor :
                [r EXCEPT !.val = <<f32_div(raw.val[1], factor),
                                    f32_div(raw.val[2], factor),
                                    f32_div(raw.val[3], factor)>>])))

\* Icm42688p::angular_velocity
angular_velocity(c, fail) ==
    Try(raw_angular_velocity(c, fail), LAMBDA raw :
        Try(gyro_range(raw, fail), LAMBDA r :
            Bind(GyroRange_sensitivity_scale_factor(r.val), LAMBDA factor :
                [r EXCEPT !.val = <<f32_div(raw.val[1], factor),
                                    f32_div(raw.val[2], factor),
                                    f32_div(raw.val[3], factor)>>])))

\* Icm42688p::temperature_celsius: `raw as f32 / 132.48 + 25.0` for the u16
\* raw, as the exact fraction num/den with 132.48 carried in hundredths
temperature_celsius(c, fail) ==
    Try(raw_temperature(c, fail), LAMBDA temp :
        [temp EXCEPT !.val = [num |-> temp.val * 100 + 25 * 13248, den |-> 13248]])

\* Icm42688p::temperature_fahrenheit: `celsius * 1.8 + 32.0`
temperature_fahrenheit(c, fail) ==
    Try(temperature_celsius(c, fail), LAMBDA t :
        [t EXCEPT !.val = [num |-> t.val.num * 18 + 320 * t.val.den,
                           den |-> 10 * t.val.den]])

\* Icm42688p::new
new(c, fail) ==
    Try(device_id(c, fail), LAMBDA id :
        IF id.val # ICM42688P_DEVICE_ID
        THEN [id EXCEPT !.status = "err", !.err = "BadDeviceId"]
        ELSE [id EXCEPT !.val = "instance"])

---------------------------------------------------------------------------
(* The driver as a state machine: one action per call.  In each action the  *)
(* fail-th bus transaction of the call is the one that fails: fail ranges   *)
(* over 0 (none fails) and every transaction the call can issue.            *)

\* contents tried for the two configuration registers: index 0..MaxCfg
MaxCfg == 1

\* sensor words tried for the data registers: index 0..MaxSample
MaxSample == 1

\* configuration bytes: the reset value 0x06, the marker 0x1F (every bit
\* outside FS_SEL set), 0x66, 0xE9, 0x00, 0xFF, then a spread of other bytes
CfgByte(i) ==
    LET known == <<6, 31, 102, 233, 0, 255>>
    IN IF i < Len(known) THEN known[i + 1] ELSE (i * 37 + 11) % 256

\* 16-bit sensor words: 4096, 0, -4096, -1, 13248, -32768, 0x1234, 255, then a spread
SampleWord(i) ==
    LET known == <<4096, 0, 61440, 65535, 13248, 32768, 4660, 255>>
    IN IF i < Len(known) THEN known[i + 1] ELSE (i * 4951 + 257) % 65536

\* The device stores a 16-bit word in two adjacent registers, the upper byte
\* in the register at the lower address (AccelDataX1 = 0x1F) and the lower
\* byte in the following one (AccelDataX0 = 0x20).
StoreWord(r, upper, lower, w) ==
    [r EXCEPT ![Bank0[upper]] = w \div 256, ![Bank0[lower]] = w % 256]

\* the device's register file with WhoAmI = id, AccelConfig0 = CfgByte(a),
\* GyroConfig0 = CfgByte(a + 1), PwrMgmt0 = CfgByte(a + 2) and the sensor
\* words from SampleWord(k)
DeviceRegs(id, a, k) ==
    LET zero == [ad \in { Bank0[n] : n \in Bank0Names } |-> 0]
        r0 == [zero EXCEPT ![Bank0.WhoAmI] = id,
                           ![Bank0.AccelConfig0] = CfgByte(a),
                           ![Bank0.GyroConfig0] = CfgByte(a + 1),
                           ![Bank0.PwrMgmt0] = CfgByte(a + 2)]
        r1 == StoreWord(r0, "AccelDataX1", "AccelDataX0", SampleWord(k))
        r2 == StoreWord(r1, "AccelDataY1", "AccelDataY0", SampleWord(k + 1))
        r3 == StoreWord(r2, "AccelDataZ1", "AccelDataZ0", SampleWord(k + 2))
        r4 == StoreWord(r3, "GyroDataX1", "GyroDataX0", SampleWord(k + 2))
        r5 == StoreWord(r4, "GyroDataY1", "GyroDataY0", SampleWord(k + 1))
        r6 == StoreWord(r5, "GyroDataZ1", "GyroDataZ0", SampleWord(k))
        r7 == StoreWord(r6, "TempData1", "TempData0", SampleWord(k + 1))
    IN StoreWord(r7, "FifoCountH", "FifoCountL", SampleWord(k + 4))

NoCall == [name |-> "none", arg |-> "none"]

NoResult == [tag |-> "None"]

\* what a call returns to its caller
Returned(c) ==
    CASE c.status = "ok" -> Ok(c.val)
      [] c.status = "err" -> Err(c.err)
      [] c.status = "panic" -> [tag |-> "Panic", msg |-> c.err]

\* the state a call leaves behind
Finish(c, name, arg, nextPhase) ==
    /\ regs' = c.regs
    /\ bank' = c.bank
    /\ trace' = c.trace
    /\ result' = Returned(c)
    /\ pre' = regs
    /\ op' = [name |-> name, arg |-> arg]
    /\ phase' = IF c.status = "panic" THEN "panicked" ELSE nextPhase
    /\ UNCHANGED debug_assertions

\* Before construction: any identity byte on a device in its power-on bank;
\* the other registers vary only where a driver can come to exist.
Init ==
    /\ debug_assertions \in BOOLEAN
    /\ phase = "uninit"
    /\ \E id \in 0..255, a \in 0..MaxCfg, k \in 0..MaxSample :
          /\ id # ICM42688P_DEVICE_ID => (a = 0 /\ k = 0)
          /\ regs = DeviceRegs(id, a, k)
    /\ bank = 0
    /\ op = NoCall
    /\ pre = regs
    /\ trace = <<>>
    /\ result = NoResult

New ==
    /\ phase = "uninit"
    /\ \E fail \in 0..1 :
          \E c \in {new(Ctx0, fail)} :
             Finish(c, "new", "none", IF c.status = "ok" THEN "ready" ELSE "failed")

SetAccelRange ==
    /\ phase = "ready"
    /\ \E range \in DOMAIN AccelRange, fail \in 0..2 :
          \E c \in {set_accel_range(Ctx0, range, fail)} : Finish(c, "set_accel_range", range, "ready")

GetAccelRange ==
    /\ phase = "ready"
    /\ \E fail \in 0..1 :
          \E c \in {accel_range(Ctx0, fail)} : Finish(c, "accel_range", "none", "ready")

GetAccelOdr ==
    /\ phase = "ready"
    /\ \E fail \in 0..1 :
          \E c \in {accel_odr(Ctx0, fail)} : Finish(c, "accel_odr", "none", "ready")

SetGyroRange ==
    /\ phase = "ready"
    /\ \E range \in DOMAIN GyroRange, fail \in 0..2 :
          \E c \in {set_gyro_range(Ctx0, range, fail)} : Finish(c, "set_gyro_range", range, "ready")

GetGyroRange ==
    /\ phase = "ready"
    /\ \E fail \in 0..1 :
          \E c \in {gyro_range(Ctx0, fail)} : Finish(c, "gyro_range", "none", "ready")

GetGyroOdr ==
    /\ phase = "ready"
    /\ \E fail \in 0..1 :
          \E c \in {gyro_odr(Ctx0, fail)} : Finish(c, "gyro_odr", "none", "ready")

Acceleration ==
    /\ phase = "ready"
    /\ \E fail \in 0..7 :
          \E c \in {acceleration(Ctx0, fail)} : Finish(c, "acceleration", "none", "ready")

AngularVelocity ==
    /\ phase = "ready"
    /\ \E fail \in 0..7 :
          \E c \in {angular_velocity(Ctx0, fail)} : Finish(c, "angular_velocity", "none", "ready")

RawTemperature ==
    /\ phase = "ready"
    /\ \E fail \in 0..2 :
          \E c \in {raw_temperature(Ctx0, fail)} : Finish(c, "raw_temperature", "none", "ready")

FifoCount ==
    /\ phase = "ready"
    /\ \E fail \in 0..2 :
          \E c \in {fifo_count(Ctx0, fail)} : Finish(c, "fifo_count", "none", "ready")

SetPowerMode ==
    /\ phase = "ready"
    /\ \E mode \in DOMAIN PowerMode, fail \in 0..2 :
          \E c \in {set_power_mode(Ctx0, mode, fail)} : Finish(c, "set_power_mode", mode, "ready")

GetPowerMode ==
    /\ phase = "ready"
    /\ \E fail \in 0..1 :
          \E c \in {power_mode(Ctx0, fail)} : Finish(c, "power_mode", "none", "ready")

TemperatureCelsius ==
    /\ phase = "ready"
    /\ \E fail \in 0..2 :
          \E c \in {temperature_celsius(Ctx0, fail)} :
             Finish(c, "temperature_celsius", "none", "ready")

TemperatureFahrenheit ==
    /\ phase = "ready"
    /\ \E fail \in 0..2 :
          \E c \in {temperature_fahrenheit(Ctx0, fail)} :
             Finish(c, "temperature_fahrenheit", "none", "ready")

ResetFifo ==
    /\ phase = "ready"
    /\ \E fail \in 0..2 :
          \E c \in {reset_fifo(Ctx0, fail)} : Finish(c, "reset_fifo", "none", "ready")

Next ==
    \/ New
    \/ SetAccelRange
    \/ GetAccelRange
    \/ GetAccelOdr
    \/ SetGyroRange
    \/ GetGyroRange
    \/ GetGyroOdr
    \/ Acceleration
    \/ AngularVelocity
    \/ RawTemperature
    \/ FifoCount
    \/ TemperatureCelsius
    \/ TemperatureFahrenheit

Spec == Init /\ [][Next]_vars

\* The power-management and signal-path calls read and write only PwrMgmt0
\* and SignalPathReset, which no call of Next touches; they are explored from
\* the same initial states in a behaviour of their own.
NextPower ==
    \/ New
    \/ SetPowerMode
    \/ GetPowerMode
    \/ ResetFifo

SpecPower == Init /\ [][NextPower]_vars

---------------------------------------------------------------------------
(* Properties of the read-modify-write setters *)

\* the bits of a byte outside the field (offset, length)
OutsideField(b, range) ==
    { <<i, Bit(b, i)>> : i \in (0..7) \ (range.offset..(range.offset + range.length - 1)) }

\* the bus frames of the last call that are register writes (bit 7 of the first byte clear)
WriteFrames == { i \in 1..Len(trace) : trace[i].tx[1] < 128 }

\* the register and field a range setter targets
SetterTarget(name) ==
    IF name = "set_accel_range"
    THEN [reg |-> "AccelConfig0", range |-> ACCEL_CONFIG0.FS_SEL, enum |-> "AccelRange"]
    ELSE [reg |-> "GyroConfig0", range |-> GYRO_CONFIG0.FS_SEL, enum |-> "GyroRange"]

IsSetter == op.name \in {"set_accel_range", "set_gyro_range"}

\* C1: a field write through set_register_bits (set_accel_range, set_gyro_range)
\* writes back a byte whose bits outside the field's (offset, length) are the
\* bits that were read, whatever the register held before, and it writes no
\* register but the target one.
C1_FieldWritePreservesForeignBits ==
    IsSetter =>
        LET t == SetterTarget(op.name)
        IN /\ \A i \in WriteFrames :
                /\ trace[i].tx[1] = Bank0[t.reg]
                /\ i = 2 /\ trace[1].ok /\ trace[1].tx[1] = Bank0[t.reg] + 128
                /\ OutsideField(trace[i].tx[2], t.range)
                     = OutsideField(trace[1].rx[2], t.range)
           /\ \A ad \in DOMAIN regs :
                ad # Bank0[t.reg] => regs[ad] = pre[ad]
           /\ OutsideField(regs[Bank0[t.reg]], t.range)
                = OutsideField(pre[Bank0[t.reg]], t.range)

\* a setter succeeded on a register whose bits 4..0 were all set, and it
\* changed the register
C1_Witness ==
    /\ IsSetter
    /\ result.tag = "Ok"
    /\ And8(pre[Bank0[SetterTarget(op.name).reg]], 31) = 31
    /\ regs[Bank0[SetterTarget(op.name).reg]] # pre[Bank0[SetterTarget(op.name).reg]]

\* C2: a field write clears exactly the target field's bits (the bits of
\* BitRange::mask(), offset..offset+length-1) before OR-ing in the new code,
\* so a successful set_accel_range / set_gyro_range, whatever the register
\* held, writes (old & ~0xE0) | (code << 5), leaves the code of the range just
\* set in FS_SEL (bits 7..5), and accel_range() / gyro_range() then returns
\* that range.
C2_FieldHoldsLastSetRange ==
    (IsSetter /\ result.tag = "Ok") =>
        LET t == SetterTarget(op.name)
            get == IF op.name = "set_accel_range"
                   THEN accel_range(Ctx0, 0) ELSE gyro_range(Ctx0, 0)
        IN /\ trace[2].tx[2]
                = And8(trace[1].rx[2], 31) + 32 * as_u8(t.enum, op.arg)
           /\ Shr8(regs[Bank0[t.reg]], 5) = as_u8(t.enum, op.arg)
           /\ Returned(get) = Ok(op.arg)

---------------------------------------------------------------------------
(* Properties of construction and of the sensor readings *)

\* C6: new reads WhoAmI (0x75) once: Ok(driver) if the byte is 0x47,
\* Err(BadDeviceId) for any other byte, the bus error if the read fails; it
\* writes no register and does not retry.
C6_NewReadsWhoAmIOnce ==
    op.name = "new" =>
        /\ Len(trace) = 1
        /\ trace[1].tx = <<Bank0.WhoAmI + 128, 0>>
        /\ regs = pre
        /\ result = IF ~trace[1].ok THEN Err("Spi")
                    ELSE IF trace[1].rx[2] = 71 THEN Ok("instance")
                    ELSE Err("BadDeviceId")

\* a 16-bit word as a two's-complement integer
Signed16(w) == IF w >= 32768 THEN w - 65536 ELSE w

\* the 16-bit word the device holds in the register pair starting at the
\* lower address `upper`: that register is the most-significant byte
DeviceWord(upper) == regs[Bank0[upper]] * 256 + regs[Bank0[upper] + 1]

\* the fraction q equals n / (d10 / 10)
FractionIs(q, n, d10) == q.num * d10 = n * 10 * q.den

\* C9: acceleration() and angular_velocity() return, per axis, the register
\* pair taken as a two's-complement 16-bit integer divided by the scale factor
\* of the range the config register holds at the time of the call; with +-8g
\* and the raw sample (4096, 0, -4096) the result is (1.0, 0.0, -1.0).
C9_ReadingIsSignedSampleOverScale ==
    /\ (op.name = "acceleration" /\ result.tag = "Ok") =>
          LET r == AccelRange_try_from(Shr8(regs[Bank0.AccelConfig0], 5))
              f == AccelRange_sensitivity_scale_factor(r.val)
          IN /\ r.tag = "Ok"
             /\ FractionIs(result.val[1], Signed16(DeviceWord("AccelDataX1")), f)
             /\ FractionIs(result.val[2], Signed16(DeviceWord("AccelDataY1")), f)
             /\ FractionIs(result.val[3], Signed16(DeviceWord("AccelDataZ1")), f)
             /\ ( /\ r.val = "G8"
                  /\ DeviceWord("AccelDataX1") = 4096
                  /\ DeviceWord("AccelDataY1") = 0
                  /\ DeviceWord("AccelDataZ1") = 61440 )
                => /\ FractionIs(result.val[1], 1, 10)
                   /\ FractionIs(result.val[2], 0, 10)
                   /\ FractionIs(result.val[3], -1, 10)
    /\ (op.name = "angular_velocity" /\ result.tag = "Ok") =>
          LET r == GyroRange_try_from(Shr8(regs[Bank0.GyroConfig0], 5))
              f == GyroRange_sensitivity_scale_factor(r.val)
          IN /\ r.tag = "Ok"
             /\ FractionIs(result.val[1], Signed16(DeviceWord("GyroDataX1")), f)
             /\ FractionIs(result.val[2], Signed16(DeviceWord("GyroDataY1")), f)
             /\ FractionIs(result.val[3], Signed16(DeviceWord("GyroDataZ1")), f)

\* C10: every 16-bit value the driver assembles (accel X/Y/Z, gyro X/Y/Z,
\* temperature, FIFO count) has the register at the lower address
\* (AccelDataX1, GyroDataX1, TempData1, FifoCountH) as its most-significant
\* byte and the register at the following address as its least-significant byte.
C10_LowerAddressIsMostSignificant ==
    /\ (op.name = "raw_temperature" /\ result.tag = "Ok") =>
          result.val = DeviceWord("TempData1")
    /\ (op.name = "fifo_count" /\ result.tag = "Ok") =>
          result.val = DeviceWord("FifoCountH")
    /\ (op.name = "acceleration" /\ result.tag = "Ok") =>
          /\ result.val[1].num = 10 * DeviceWord("AccelDataX1")
          /\ result.val[2].num = 10 * DeviceWord("AccelDataY1")
          /\ result.val[3].num = 10 * DeviceWord("AccelDataZ1")
    /\ (op.name = "angular_velocity" /\ result.tag = "Ok") =>
          /\ result.val[1].num = 10 * DeviceWord("GyroDataX1")
          /\ result.val[2].num = 10 * DeviceWord("GyroDataY1")
          /\ result.val[3].num = 10 * DeviceWord("GyroDataZ1")

---------------------------------------------------------------------------
(* Properties of the read accessors *)

\* the register and field a read accessor owns
GetterTarget(name) ==
    CASE name = "accel_range" ->
           [reg |-> "AccelConfig0", range |-> ACCEL_CONFIG0.FS_SEL, enum |-> "AccelRange"]
      [] name = "accel_odr" ->
           [reg |-> "AccelConfig0", range |-> ACCEL_CONFIG0.ODR, enum |-> "AccelOdr"]
      [] name = "gyro_range" ->
           [reg |-> "GyroConfig0", range |-> GYRO_CONFIG0.FS_SEL, enum |-> "GyroRange"]
      [] name = "gyro_odr" ->
           [reg |-> "GyroConfig0", range |-> GYRO_CONFIG0.ODR, enum |-> "GyroOdr"]

IsGetter == op.name \in {"accel_range", "accel_odr", "gyro_range", "gyro_odr"}

\* the value of the field (offset, length) of the byte b
FieldOf(b, range) == (b \div Pow2(range.offset)) % Pow2(range.length)

\* C14: each read accessor reads its own register and decodes its own field:
\* accel_range() bits 7..5 of AccelConfig0 (0x50), accel_odr() bits 3..0 of
\* AccelConfig0, gyro_range() bits 7..5 of GyroConfig0 (0x4F), gyro_odr()
\* bits 3..0 of GyroConfig0; so where the two registers hold different ODR
\* codes gyro_odr() returns the one stored in GyroConfig0.
C14_GetterReadsOwnField ==
    (IsGetter /\ Len(trace) >= 1) =>
        LET t == GetterTarget(op.name)
        IN /\ Len(trace) = 1
           /\ trace[1].tx = <<Bank0[t.reg] + 128, 0>>
           /\ result.tag = "Ok" =>
                 as_u8(t.enum, result.val) = FieldOf(regs[Bank0[t.reg]], t.range)
           /\ (result.tag = "Err" /\ trace[1].ok) =>
                 try_from(t.enum, FieldOf(regs[Bank0[t.reg]], t.range)).tag = "Err"

---------------------------------------------------------------------------
(* Properties of the power mode *)

\* C11: set_power_mode(m) is a read-modify-write of PwrMgmt0 (0x4E): its only
\* write is the second frame, to PwrMgmt0, of the byte read with the high
\* nibble kept and the low nibble replaced by m's code; power_mode() decodes
\* the low nibble.  So after every successful set_power_mode(m), whatever the
\* register held and whatever was set before, power_mode() returns m, Sleep
\* included, and the driver accepts further calls.
C11_PowerModeIsLastSet ==
    /\ op.name = "set_power_mode" =>
          /\ \A i \in WriteFrames :
                /\ i = 2 /\ trace[1].ok
                /\ trace[1].tx = <<Bank0.PwrMgmt0 + 128, 0>>
                /\ trace[i].tx = <<Bank0.PwrMgmt0,
                                   16 * (trace[1].rx[2] \div 16)
                                     + as_u8("PowerMode", op.arg)>>
          /\ result.tag = "Ok" =>
                /\ phase = "ready"
                /\ regs[Bank0.PwrMgmt0]
                     = 16 * (pre[Bank0.PwrMgmt0] \div 16) + as_u8("PowerMode", op.arg)
                /\ \A ad \in DOMAIN regs :
                      ad # Bank0.PwrMgmt0 => regs[ad] = pre[ad]
                /\ Returned(power_mode(Ctx0, 0)) = Ok(op.arg)
    /\ (op.name = "power_mode" /\ result.tag = "Ok") =>
          /\ trace[1].tx = <<Bank0.PwrMgmt0 + 128, 0>>
          /\ as_u8("PowerMode", result.val) = regs[Bank0.PwrMgmt0] % 16
          /\ regs = pre

\* set_power_mode(Sleep) succeeded on a register whose two nibbles were both
\* non-zero, after another mode had been set
C11_Witness ==
    /\ op.name = "set_power_mode" /\ op.arg = "Sleep"
    /\ result.tag = "Ok"
    /\ phase = "ready"
    /\ pre[Bank0.PwrMgmt0] % 16 = as_u8("PowerMode", "SixAxisLowNoise")
    /\ pre[Bank0.PwrMgmt0] \div 16 # 0

---------------------------------------------------------------------------
(* Properties of the temperature reading *)

\* the fraction q, over the denominator 13248 (132.48 in hundredths), equals
\* n / 132.48 + 25
CelsiusIs(q, n) == q.den = 13248 /\ q.num = n * 100 + 25 * q.den

\* C13: temperature_celsius() returns raw / 132.48 + 25 where raw is the
\* 16-bit word of TempData1:TempData0 taken as a two's-complement integer:
\* raw 0 gives 25.0, raw 13248 gives 125.0, and a raw value with bit 15 set
\* gives a result below 25.0.
C13_CelsiusIsSignedRawOverSensitivity ==
    (op.name = "temperature_celsius" /\ result.tag = "Ok") =>
        /\ CelsiusIs(result.val, Signed16(DeviceWord("TempData1")))
        /\ DeviceWord("TempData1") = 0 => result.val.num = 25 * result.val.den
        /\ DeviceWord("TempData1") = 13248 => result.val.num = 125 * result.val.den
        /\ DeviceWord("TempData1") >= 32768 => result.val.num < 25 * result.val.den

\* C16: reset_fifo() requests a FIFO flush and nothing else: its only write
\* is to SignalPathReset (0x4B), of the byte it read with FIFO_FLUSH (bit 1,
\* mask 0x02) set and every other bit, TMST_STROBE (bit 2) and
\* ABORT_AND_RESET (bit 3) included, unchanged.
C16_ResetFifoSetsOnlyFlushBit ==
    op.name = "reset_fifo" =>
        /\ \A i \in WriteFrames :
              /\ i = 2 /\ trace[1].ok
              /\ trace[1].tx = <<Bank0.SignalPathReset + 128, 0>>
              /\ trace[i].tx = <<Bank0.SignalPathReset,
                                 Or8(trace[1].rx[2], SIGNAL_PATH_RESET.FIFO_FLUSH)>>
        /\ \A ad \in DOMAIN regs :
              ad # Bank0.SignalPathReset => regs[ad] = pre[ad]

---------------------------------------------------------------------------
(* Properties of error handling *)

\* the bus transactions of the last call that the bus reported as failed
FailedTransfers == { i \in 1..Len(trace) : ~trace[i].ok }

\* C12: no call panics on a bus error: when a bus transfer of a call fails
\* (reset_fifo and the read-modify-write setters included) the call returns
\* that error as an Err value, the failed transfer is the last transaction
\* of the call (no write-back after a failed read, no retry) and the
\* registers are as the successful transfers before it left them.
C12_BusErrorIsReturned ==
    FailedTransfers # {} =>
        /\ result = Err("Spi")
        /\ FailedTransfers = {Len(trace)}
        /\ phase # "panicked"

---------------------------------------------------------------------------
(* Properties of the register permissions *)

\* the Bank0 register at an address
RegisterAt(ad) == CHOOSE n \in Bank0Names : Bank0[n] = ad

\* C15: the permission assertions of read_register and write_register never
\* fail: no call panics on one, and every register a call has read on the bus
\* is readable() and every register it has written is writable(); WhoAmI,
\* PwrMgmt0, AccelConfig0, GyroConfig0 and SignalPathReset are among them.
C15_PermissionAssertionsHold ==
    /\ ~(result.tag = "Panic" /\ result.msg = "debug_assert")
    /\ \A i \in 1..Len(trace) :
          IF trace[i].tx[1] >= 128
          THEN readable(RegisterAt(trace[i].tx[1] - 128))
          ELSE writable(RegisterAt(trace[i].tx[1]))

---------------------------------------------------------------------------
(* The configuration codec on its own: one decode of any byte, or one       *)
(* encode-then-decode of any variant, per behaviour                        *)

InitCodec ==
    /\ debug_assertions \in BOOLEAN
    /\ phase = "codec"
    /\ regs = DeviceRegs(ICM42688P_DEVICE_ID, 0, 0)
    /\ bank = 0
    /\ op = NoCall
    /\ pre = regs
    /\ trace = <<>>
    /\ result = NoResult

\* E::try_from(value) for any byte
Decode ==
    /\ phase = "codec"
    /\ \E e \in Enums, value \in 0..255 :
          /\ op' = [name |-> "try_from", enum |-> e, value |-> value]
          /\ result' = try_from(e, value)
    /\ phase' = "decoded"
    /\ UNCHANGED <<debug_assertions, regs, bank, pre, trace>>

\* E::try_from(v as u8) for any variant v
EncodeDecode ==
    /\ phase = "codec"
    /\ \E e \in Enums :
          \E v \in DOMAIN Discriminants(e) :
             /\ op' = [name |-> "as_u8_try_from", enum |-> e, variant |-> v,
                       value |-> as_u8(e, v)]
             /\ result' = try_from(e, as_u8(e, v))
    /\ phase' = "decoded"
    /\ UNCHANGED <<debug_assertions, regs, bank, pre, trace>>

NextCodec == Decode \/ EncodeDecode

SpecCodec == InitCodec /\ [][NextCodec]_vars

\* the width in bits of the field an enum is stored in: the ODR and FS_SEL
\* fields as declared, 2 bits for the accel, gyro and FIFO modes, the low
\* nibble for PowerMode
FieldWidth(e) ==
    CASE e = "AccelOdr" -> ACCEL_CONFIG0.ODR.length
      [] e = "GyroOdr" -> GYRO_CONFIG0.ODR.length
      [] e = "AccelRange" -> ACCEL_CONFIG0.FS_SEL.length
      [] e = "GyroRange" -> GYRO_CONFIG0.FS_SEL.length
      [] e \in {"GyroMode", "AccelMode", "FifoMode"} -> 2
      [] e = "PowerMode" -> 4

\* the codes some variant of the enum has as its discriminant
Codes(e) == { Discriminants(e)[v] : v \in DOMAIN Discriminants(e) }

\* C3: for every variant v of every configuration enum, try_from(v as u8) is
\* Ok(v), and v as u8 fits in the field's bit-width.
C3_RoundTripWithinWidth ==
    op.name = "as_u8_try_from" =>
        /\ result = Ok(op.variant)
        /\ op.value < Pow2(FieldWidth(op.enum))

\* the round trip was taken for a variant whose code fills its field
C3_Witness ==
    /\ op.name = "as_u8_try_from"
    /\ op.enum = "PowerMode"
    /\ op.variant = "SixAxisLowNoise"
    /\ op.value = 15
    /\ result.tag = "Ok"

\* C4 as stated: every code within the field's bit-width that is no variant's
\* discriminant decodes to Err(DataCorrupted), without a panic.
C4_UndefinedCodeIsRejected ==
    ( /\ op.name = "try_from"
      /\ op.value < Pow2(FieldWidth(op.enum))
      /\ op.value \notin Codes(op.enum) )
    => result = Err("DataCorrupted")

\* the two codes the decoders accept although no variant has them
AliasedCodes == { <<"AccelMode", 1>>, <<"FifoMode", 3>> }

\* C4 as amended: every code within the field's bit-width that is no variant's
\* discriminant decodes to Err(DataCorrupted), except AccelMode 0b01, which
\* decodes to Off, and FifoMode 0b11, which decodes to StopOnFull; every byte
\* decodes to Ok or Err, never a panic.
C4_UndefinedCodeIsRejectedOrAliased ==
    op.name = "try_from" =>
        /\ result.tag \in {"Ok", "Err"}
        /\ ( /\ op.value < Pow2(FieldWidth(op.enum))
             /\ op.value \notin Codes(op.enum) )
           => IF <<op.enum, op.value>> \notin AliasedCodes
              THEN result = Err("DataCorrupted")
              ELSE result = Ok(IF op.enum = "AccelMode" THEN "Off" ELSE "StopOnFull")

\* a reserved gyro ODR code was decoded and rejected
C4_Witness ==
    /\ op.name = "try_from"
    /\ op.enum = "GyroOdr"
    /\ op.value = 12
    /\ result = Err("DataCorrupted")

---------------------------------------------------------------------------
(* src/interface.rs: SpiBusInterface and I2cInterface *)

\* I2cInterface::SLAVE_ADDRESS
SLAVE_ADDRESS == 104

\* the byte the device drives while the address byte of a frame is clocked
\* out: no register content, either line level
AddressPhaseBytes == {0, 255}

\* SpiBus::transfer(&mut read, &write): as many bytes are exchanged as the
\* longer buffer holds; the device answers a read frame with the addressed
\* register in the second byte and with an address-phase byte before it
SpiBus_transfer(c, read_len, write, idle, fail) ==
    IF fail = 1
    THEN [c EXCEPT !.trace = Append(@, [call |-> "transfer", tx |-> write,
                                        rx |-> <<>>, ok |-> FALSE]),
                   !.status = "err"]
    ELSE Bind(IF write[1] >= 128 THEN <<idle, c.regs[write[1] - 128]>> ELSE <<idle, idle>>,
              LAMBDA frame :
                 Bind(SubSeq(frame, 1, read_len), LAMBDA rx :
                    [c EXCEPT !.trace = Append(@, [call |-> "transfer", tx |-> write,
                                                   rx |-> rx, ok |-> TRUE]),
                              !.rx = rx]))

\* SpiBus::write(&words): the device stores the second byte of a write frame
SpiBus_write(c, words, fail) ==
    IF fail = 1
    THEN [c EXCEPT !.trace = Append(@, [call |-> "write", tx |-> words,
                                        rx |-> <<>>, ok |-> FALSE]),
                   !.status = "err"]
    ELSE Bind(DeviceFrame(c, words), LAMBDA d :
            [d EXCEPT !.trace = Append(@, [call |-> "write", tx |-> words,
                                           rx |-> <<>>, ok |-> TRUE]),
                      !.rx = <<>>])

\* SpiBusInterface::read_register
SpiBusInterface_read_register(c, addr, idle, fail) ==
    IF debug_assertions /\ And8(addr, 128) # 0
    THEN [c EXCEPT !.status = "panic", !.err = "debug_assert"]
    ELSE Bind(SpiBus_transfer(c, 1, <<Or8(128, addr)>>, idle, fail), LAMBDA t :
            IF t.status = "err" THEN [t EXCEPT !.err = "Spi"]
            ELSE [t EXCEPT !.val = t.rx[1]])

\* SpiBusInterface::write_register
SpiBusInterface_write_register(c, addr, buffer, fail) ==
    IF debug_assertions /\ And8(addr, 128) # 0
    THEN [c EXCEPT !.status = "panic", !.err = "debug_assert"]
    ELSE Bind(SpiBus_write(c, <<Or8(0, addr), buffer>>, fail), LAMBDA t :
            IF t.status = "err" THEN [t EXCEPT !.err = "Spi"]
            ELSE [t EXCEPT !.val = 0])

\* I2c::transaction(address, operations): the device takes the first byte of
\* a Write as the register address, stores a second byte there, and answers a
\* following Read of one byte with the addressed register
I2c_transaction(c, slave, operations, fail) ==
    IF fail = 1
    THEN [c EXCEPT !.trace = Append(@, [call |-> "transaction", address |-> slave,
                                        operations |-> operations,
                                        rx |-> <<>>, ok |-> FALSE]),
                   !.status = "err"]
    ELSE Bind(operations[1].bytes, LAMBDA w :
            Bind(IF Len(operations) = 2 THEN <<c.regs[w[1]]>> ELSE <<>>, LAMBDA rx :
               [c EXCEPT !.trace = Append(@, [call |-> "transaction", address |-> slave,
                                              operations |-> operations,
                                              rx |-> rx, ok |-> TRUE]),
                         !.rx = rx,
                         !.regs = IF Len(w) = 2 THEN [c.regs EXCEPT ![w[1]] = w[2]]
                                  ELSE c.regs]))

\* a register read issued as two transactions, the address write and then the read
I2cInterface_read_register_split(c, addr, fail) ==
    Bind(I2c_transaction(c, SLAVE_ADDRESS,
                         << [kind |-> "Write", bytes |-> <<addr>>] >>, fail),
         LAMBDA w :
            IF w.status = "err" THEN [w EXCEPT !.err = "I2C"]
            ELSE Bind([w EXCEPT !.trace = Append(@, [call |-> "transaction",
                                     address |-> SLAVE_ADDRESS,
                                     operations |-> << [kind |-> "Read", bytes |-> <<0>>] >>,
                                     rx |-> <<w.regs[addr]>>, ok |-> TRUE])],
                      LAMBDA t : [t EXCEPT !.val = t.regs[addr]]))

\* I2cInterface::read_register
I2cInterface_read_register(c, addr, fail) ==
    Bind(I2c_transaction(c, SLAVE_ADDRESS,
                         << [kind |-> "Write", bytes |-> <<addr>>],
                            [kind |-> "Read", bytes |-> <<0>>] >>, fail),
         LAMBDA t : IF t.status = "err" THEN [t EXCEPT !.err = "I2C"]
                    ELSE [t EXCEPT !.val = t.rx[1]])

\* I2cInterface::write_register
I2cInterface_write_register(c, addr, buffer, fail) ==
    Bind(I2c_transaction(c, SLAVE_ADDRESS,
                         << [kind |-> "Write", bytes |-> <<addr, buffer>>] >>, fail),
         LAMBDA t : IF t.status = "err" THEN [t EXCEPT !.err = "I2C"]
                    ELSE [t EXCEPT !.val = 0])

\* the register addresses the interfaces are exercised with
IfaceAddresses == { Bank0.WhoAmI, Bank0.PwrMgmt0, Bank0.AccelConfig0 }

\* the bytes written through the interfaces
IfaceBytes == { CfgByte(i) : i \in 0..MaxCfg }

\* an interface constructed over its bus; the device as after power-on
InitIface ==
    /\ debug_assertions \in BOOLEAN
    /\ phase \in {"spi", "i2c"}
    /\ \E a \in 0..MaxCfg : regs = DeviceRegs(ICM42688P_DEVICE_ID, a, 0)
    /\ bank = 0
    /\ op = NoCall
    /\ pre = regs
    /\ trace = <<>>
    /\ result = NoResult

SpiReadRegister ==
    /\ phase = "spi"
    /\ \E addr \in IfaceAddresses, idle \in AddressPhaseBytes, fail \in 0..1 :
          \E c \in {SpiBusInterface_read_register(Ctx0, addr, idle, fail)} :
             Finish(c, "spi_read_register", <<addr>>, "spi")

SpiWriteRegister ==
    /\ phase = "spi"
    /\ \E addr \in IfaceAddresses, buffer \in IfaceBytes, fail \in 0..1 :
          \E c \in {SpiBusInterface_write_register(Ctx0, addr, buffer, fail)} :
             Finish(c, "spi_write_register", <<addr, buffer>>, "spi")

I2cReadRegister ==
    /\ phase = "i2c"
    /\ \E addr \in IfaceAddresses, fail \in 0..1 :
          \E c \in {I2cInterface_read_register(Ctx0, addr, fail)} :
             Finish(c, "i2c_read_register", <<addr>>, "i2c")

I2cWriteRegister ==
    /\ phase = "i2c"
    /\ \E addr \in IfaceAddresses, buffer \in IfaceBytes, fail \in 0..1 :
          \E c \in {I2cInterface_write_register(Ctx0, addr, buffer, fail)} :
             Finish(c, "i2c_write_register", <<addr, buffer>>, "i2c")

NextIface == SpiReadRegister \/ SpiWriteRegister \/ I2cReadRegister \/ I2cWriteRegister

SpecIface == InitIface /\ [][NextIface]_vars

\* C7: every SPI register read is one bus transaction that transmits exactly
\* [0x80 | addr, 0x00] and returns the second received byte, the register
\* value; every SPI register write transmits exactly [addr, data] with bit 7
\* of the first byte clear.
C7_SpiFrames ==
    /\ (op.name = "spi_read_register" /\ result.tag # "Panic") =>
          /\ Len(trace) = 1
          /\ trace[1].tx = <<128 + op.arg[1], 0>>
          /\ trace[1].ok => /\ Len(trace[1].rx) = 2
                            /\ result = Ok(trace[1].rx[2])
                            /\ result = Ok(pre[op.arg[1]])
    /\ (op.name = "spi_write_register" /\ result.tag # "Panic") =>
          /\ Len(trace) = 1
          /\ trace[1].tx = <<op.arg[1], op.arg[2]>>
          /\ trace[1].tx[1] < 128

\* C8: an I2C register read is one transaction to slave 0b1101000 with the
\* operations [Write([addr]), Read(1 byte)] and returns the byte read; an I2C
\* register write is one transaction to the same slave with [Write([addr,
\* data])]; a failed transaction yields an error and no second transaction.
C8_I2cTransactions ==
    /\ op.name = "i2c_read_register" =>
          /\ Len(trace) = 1
          /\ trace[1].address = 104
          /\ Len(trace[1].operations) = 2
          /\ trace[1].operations[1] = [kind |-> "Write", bytes |-> <<op.arg[1]>>]
          /\ trace[1].operations[2].kind = "Read"
          /\ Len(trace[1].operations[2].bytes) = 1
          /\ result = IF trace[1].ok THEN Ok(pre[op.arg[1]]) ELSE Err("I2C")
          /\ regs = pre
    /\ op.name = "i2c_write_register" =>
          /\ Len(trace) = 1
          /\ trace[1].address = 104
          /\ trace[1].operations
               = << [kind |-> "Write", bytes |-> <<op.arg[1], op.arg[2]>>] >>
          /\ result = IF trace[1].ok THEN Ok(0) ELSE Err("I2C")
          /\ trace[1].ok => regs = [pre EXCEPT ![op.arg[1]] = op.arg[2]]
          /\ ~trace[1].ok => regs = pre

\* an I2C read returned what an earlier I2C write had stored
C8_Witness ==
    /\ op.name = "i2c_read_register"
    /\ result.tag = "Ok"
    /\ result.val # DeviceRegs(ICM42688P_DEVICE_ID, 0, 0)[op.arg[1]]
    /\ result.val # DeviceRegs(ICM42688P_DEVICE_ID, 1, 0)[op.arg[1]]

====
